---- MODULE Spec2Model ----
(***************************************************************************)
(* Kalerat/SecSys, Pico/main.py: the security gateway running on the Pico. *)
(* One cooperative main loop polls the MQTT client, runs the timer checks  *)
(* and the LED blink driver, and decodes the bytes the Arduino sends over  *)
(* the UART.  The module models the loop position (pc), the module-level   *)
(* state variables of main.py, the millisecond clock time.ticks_ms(), the  *)
(* frames written to the UART and the messages published over MQTT.        *)
(*                                                                         *)
(* Python str values are sequences of one-character strings; UART traffic  *)
(* is sequences of byte values.                                            *)
(***************************************************************************)
EXTENDS Integers, Sequences, FiniteSets, TLC

VARIABLES
  pc,                       \* position of the main loop (main.py 752-854)
  now,                      \* time.ticks_ms()
  advances,                 \* clock advances made so far (bounds the run)
  current_state,
  motion_start_time,
  alarm_disabled_time,
  current_rfid_secret,
  manually_activated,
  alarm_disable_end_time,
  alarm_disable_permanent,
  last_arduino_heartbeat,
  arduino_connected,
  led_blink_active,
  led_blink_count,
  led_blink_max_count,
  led_blink_last_time,
  led_blink_is_on,
  led_blink_color,
  uart_buffer,
  uart_tx,                  \* frames written to the UART by the last step
  mqtt_tx,                  \* messages published by the last step
  buzzer,                   \* last buzzer command the device received
  led,                      \* last LED payload the device received
  rx_hist,                  \* bytes read since the decoder last started a frame from an empty buffer
  rx_msgs,                  \* messages the decoder dispatched for rx_hist
  last_event,               \* what the last step processed
  led_log,                  \* LED frames written while the LED is being watched, with their times
  liveness,                 \* device liveness events published so far, in order
  lookahead                 \* the lookahead loop of the decoder: in progress, and its start_time

ctlVars == <<current_state, motion_start_time, alarm_disabled_time, current_rfid_secret,
             manually_activated, alarm_disable_end_time, alarm_disable_permanent,
             last_arduino_heartbeat, arduino_connected>>
blinkVars == <<led_blink_active, led_blink_count, led_blink_max_count,
               led_blink_last_time, led_blink_is_on, led_blink_color>>
rxVars == <<uart_buffer, rx_hist, rx_msgs>>
vars == <<pc, now, advances, ctlVars, blinkVars, rxVars, uart_tx, mqtt_tx, buzzer, led,
          last_event, led_log, liveness, lookahead>>

----------------------------------------------------------------------------
(* Program constants *)

MSG_STATUS_READY == 1
MSG_MOTION_DETECTED == 2
MSG_MOTION_STOPPED == 3
MSG_RFID_DETECTED == 4
MSG_BUTTON_PRESSED == 5
MSG_RFID_READ_SUCCESS == 6
MSG_RFID_READ_FAILED == 7
MSG_RFID_WRITE_SUCCESS == 8
MSG_RFID_WRITE_FAILED == 9
MSG_RFID_WRITE_COMPLETED == 10
MSG_STATUS_UPDATE == 11
MSG_HEARTBEAT == 12

CMD_SET_LED_RGB == 20
CMD_SET_BUZZER_ON == 21
CMD_SET_BUZZER_OFF == 22
CMD_RFID_WRITE_PREPARE == 23
CMD_RFID_WRITE_CONFIRM == 24
CMD_RFID_NORMAL_MODE == 25

LED_OFF == <<0, 0, 0>>
LED_RED == <<255, 0, 0>>
LED_GREEN == <<0, 255, 0>>
LED_ORANGE == <<255, 165, 0>>

READY == "READY"
MOTION_DETECTED == "MOTION_DETECTED"
ALARM_ACTIVE == "ALARM_ACTIVE"
ALARM_DISABLED == "ALARM_DISABLED"
RFID_WRITE_MODE == "RFID_WRITE_MODE"
SecurityState == {READY, MOTION_DETECTED, ALARM_ACTIVE, ALARM_DISABLED, RFID_WRITE_MODE}

alarm_disable_duration == 60000
motion_grace_period == 5000
arduino_timeout == 30000
led_blink_interval == 200
lookahead_timeout == 10
\* b'\n' and b':' as byte values, and the opcode range of the lookahead test
NEWLINE == 10
COLON == 58
OPCODE_MIN == 1
OPCODE_MAX == 28

\* the module-level initial value None of current_rfid_secret
None == <<"None">>

----------------------------------------------------------------------------
(* time.ticks_ms / time.ticks_diff (MicroPython): the clock wraps at       *)
(* TICKS_PERIOD and ticks_diff is the signed wrapped difference.           *)

TICKS_PERIOD == 2^30

ticks_diff(a, b) == ((a - b + (TICKS_PERIOD \div 2)) % TICKS_PERIOD) - (TICKS_PERIOD \div 2)

----------------------------------------------------------------------------
(* Python str and bytes helpers *)

\* s.startswith(p)
StartsWith(s, p) == Len(s) >= Len(p) /\ SubSeq(s, 1, Len(p)) = p

\* s[k:]
Slice(s, k) == SubSeq(s, k + 1, Len(s))

Digits == <<"0", "1", "2", "3", "4", "5", "6", "7", "8", "9">>

IsDigit(c) == \E i \in 1..10 : Digits[i] = c

DigitValue(c) == (CHOOSE i \in 1..10 : Digits[i] = c) - 1

\* str.strip() / int() whitespace
IsSpaceChar(c) == c \in {" ", "\t", "\r", "\n"}

RECURSIVE LStrip(_)
LStrip(s) == IF s # <<>> /\ IsSpaceChar(Head(s)) THEN LStrip(Tail(s)) ELSE s

RECURSIVE RStrip(_)
RStrip(s) == IF s # <<>> /\ IsSpaceChar(s[Len(s)]) THEN RStrip(SubSeq(s, 1, Len(s) - 1)) ELSE s

strip(s) == RStrip(LStrip(s))

RECURSIVE DigitsValue(_)
DigitsValue(s) == IF s = <<>> THEN 0 ELSE 10 * DigitsValue(SubSeq(s, 1, Len(s) - 1)) + DigitValue(s[Len(s)])

\* int(text): surrounding whitespace and one sign are accepted, then decimal
\* digits only; anything else raises ValueError (ok = FALSE)
py_int(text) ==
  LET s == strip(text)
      signed == s # <<>> /\ Head(s) \in {"+", "-"}
      d == IF signed THEN Tail(s) ELSE s
  IN  IF d # <<>> /\ \A i \in 1..Len(d) : IsDigit(d[i])
      THEN [ok |-> TRUE,
            val |-> IF signed /\ Head(s) = "-" THEN 0 - DigitsValue(d) ELSE DigitsValue(d)]
      ELSE [ok |-> FALSE, val |-> 0]

\* str(n) of the f-strings, for n >= 0
RECURSIVE py_str(_)
py_str(n) == IF n < 10 THEN <<Digits[n + 1]>> ELSE py_str(n \div 10) \o <<Digits[(n % 10) + 1]>>

\* the characters the model's keys and payloads are made of, with their code points
CodePoint(c) ==
  CASE IsDigit(c) -> 48 + DigitValue(c)
    [] c = " " -> 32
    [] c = "\t" -> 9
    [] c = "\r" -> 13
    [] c = "\n" -> 10
    [] c = "," -> 44
    [] c = ":" -> 58
    [] c = "A" -> 65
    [] c = "B" -> 66
    [] c = "^B" -> 2
    [] c = "e'" -> 233

KeyChars == {"0", "1", "5", " ", ":", ",", "A", "B", "e'", "\r", "\t", "^B"}

\* text.encode('utf-8'), code points below 2048
RECURSIVE encode_utf8(_)
encode_utf8(s) ==
  IF s = <<>> THEN <<>>
  ELSE LET cp == CodePoint(Head(s))
       IN  (IF cp < 128 THEN <<cp>> ELSE <<192 + (cp \div 64), 128 + (cp % 64)>>)
           \o encode_utf8(Tail(s))

CharOf(cp) == CHOOSE c \in KeyChars \cup {Digits[i] : i \in 1..10} \cup {"\n"} : CodePoint(c) = cp

HasChar(cp) == \E c \in KeyChars \cup {Digits[i] : i \in 1..10} \cup {"\n"} : CodePoint(c) = cp

\* data.decode('utf-8'): ok = FALSE stands for UnicodeError
RECURSIVE decode_utf8(_)
decode_utf8(b) ==
  IF b = <<>> THEN [ok |-> TRUE, str |-> <<>>]
  ELSE IF Head(b) < 128
  THEN LET r == decode_utf8(Tail(b))
       IN  IF r.ok
           THEN [ok |-> TRUE, str |-> <<CharOf(Head(b))>> \o r.str]
           ELSE [ok |-> FALSE, str |-> <<>>]
  ELSE IF Head(b) >= 194 /\ Head(b) < 224 /\ Len(b) >= 2 /\ b[2] >= 128 /\ b[2] < 192
  THEN LET r == decode_utf8(Tail(Tail(b)))
           cp == (Head(b) - 192) * 64 + (b[2] - 128)
       IN  IF r.ok /\ HasChar(cp)
           THEN [ok |-> TRUE, str |-> <<CharOf(cp)>> \o r.str]
           ELSE [ok |-> FALSE, str |-> <<>>]
  ELSE [ok |-> FALSE, str |-> <<>>]

\* a variant that splits at the last b':'
LastColon(b) ==
  IF \E i \in 1..Len(b) : b[i] = COLON
  THEN CHOOSE i \in 1..Len(b) : b[i] = COLON /\ \A j \in (i + 1)..Len(b) : b[j] # COLON
  ELSE 0

\* the position of the first b':' of a bytes value, 0 when there is none
FirstColon(b) ==
  IF \E i \in 1..Len(b) : b[i] = COLON
  THEN CHOOSE i \in 1..Len(b) : b[i] = COLON /\ \A j \in 1..(i - 1) : b[j] # COLON
  ELSE 0

----------------------------------------------------------------------------
(* Control-plane texts (main.py 145-172) *)

T_AUTH_SUCCESS == <<"A", "U", "T", "H", "_", "S", "U", "C", "C", "E", "S", "S">>

T_AUTH_FAILED == <<"A", "U", "T", "H", "_", "F", "A", "I", "L", "E", "D">>

T_CMD_DISABLE_ALARM == <<"C", "M", "D", "_", "D", "I", "S", "A", "B", "L", "E", "_", "A", "L", "A", "R", "M">>

T_CMD_ACTIVATE_ALARM == <<"C", "M", "D", "_", "A", "C", "T", "I", "V", "A", "T", "E", "_", "A", "L", "A", "R", "M">>

T_CMD_RESET_ALARM == <<"C", "M", "D", "_", "R", "E", "S", "E", "T", "_", "A", "L", "A", "R", "M">>

T_CMD_DISABLE_ALARM_PERMANENT == <<"C", "M", "D", "_", "D", "I", "S", "A", "B", "L", "E", "_", "A", "L", "A", "R", "M", "_", "P", "E", "R", "M", "A", "N", "E", "N", "T">>

T_CMD_DISABLE_ALARM_TIMED == <<"C", "M", "D", "_", "D", "I", "S", "A", "B", "L", "E", "_", "A", "L", "A", "R", "M", "_", "T", "I", "M", "E", "D", ":">>

T_CMD_ENABLE_ALARM == <<"C", "M", "D", "_", "E", "N", "A", "B", "L", "E", "_", "A", "L", "A", "R", "M">>

T_CMD_RFID_WRITE_PREPARE == <<"C", "M", "D", "_", "R", "F", "I", "D", "_", "W", "R", "I", "T", "E", "_", "P", "R", "E", "P", "A", "R", "E", ":">>

T_CMD_RFID_WRITE_CONFIRM == <<"C", "M", "D", "_", "R", "F", "I", "D", "_", "W", "R", "I", "T", "E", "_", "C", "O", "N", "F", "I", "R", "M">>

T_CMD_ABORT == <<"C", "M", "D", "_", "A", "B", "O", "R", "T">>

T_CMD_RFID_WRITE_INITALIZE == <<"C", "M", "D", "_", "R", "F", "I", "D", "_", "W", "R", "I", "T", "E", "_", "I", "N", "I", "T", "A", "L", "I", "Z", "E">>

T_CMD_UNKNOWN == <<"C", "M", "D", "_", "F", "O", "O">>

topic_sub == "home/arduino/command"
topic_auth_response == "home/arduino/auth_response"
topic_pub == "home/arduino/events"
topic_auth_request == "home/arduino/auth_requests"

----------------------------------------------------------------------------
(* The module-level state of main.py as one record, so that a handler is an  *)
(* operator from the state before to the state after; uart_tx and mqtt_tx    *)
(* collect what the handler writes and publishes, in order.                  *)

Globals ==
  [now |-> now,
   current_state |-> current_state,
   motion_start_time |-> motion_start_time,
   alarm_disabled_time |-> alarm_disabled_time,
   current_rfid_secret |-> current_rfid_secret,
   manually_activated |-> manually_activated,
   alarm_disable_end_time |-> alarm_disable_end_time,
   alarm_disable_permanent |-> alarm_disable_permanent,
   last_arduino_heartbeat |-> last_arduino_heartbeat,
   arduino_connected |-> arduino_connected,
   led_blink_active |-> led_blink_active,
   led_blink_count |-> led_blink_count,
   led_blink_max_count |-> led_blink_max_count,
   led_blink_last_time |-> led_blink_last_time,
   led_blink_is_on |-> led_blink_is_on,
   led_blink_color |-> led_blink_color,
   uart_buffer |-> uart_buffer,
   rx_hist |-> rx_hist,
   rx_msgs |-> rx_msgs,
   lookahead |-> lookahead,
   uart_tx |-> <<>>,
   mqtt_tx |-> <<>>]

safe_mqtt_publish(s, topic, text, arg) ==
  [s EXCEPT !.mqtt_tx = Append(@, [topic |-> topic, text |-> text, arg |-> arg])]

send_uart_command(s, cmd) == [s EXCEPT !.uart_tx = Append(@, <<cmd>>)]

\* the four uart.write calls of send_uart_command_with_data
Frame(cmd, data) == <<cmd>> \o <<COLON>> \o encode_utf8(data) \o <<NEWLINE>>

send_uart_command_with_data(s, cmd, data) == [s EXCEPT !.uart_tx = Append(@, Frame(cmd, data))]

Clamp(x) == IF x < 0 THEN 0 ELSE IF x > 255 THEN 255 ELSE x

\* f"{red},{green},{blue}"
RgbData(color) ==
  py_str(Clamp(color[1])) \o <<",">> \o py_str(Clamp(color[2])) \o <<",">> \o py_str(Clamp(color[3]))

set_led_color(s, color) == send_uart_command_with_data(s, CMD_SET_LED_RGB, RgbData(color))

\* a variant that counts blinks instead of phases
start_led_blink_phases(s, color, blink_count) ==
  LET s1 == [s EXCEPT !.led_blink_active = TRUE,
                      !.led_blink_count = 0,
                      !.led_blink_max_count = blink_count,
                      !.led_blink_last_time = s.now,
                      !.led_blink_is_on = FALSE,
                      !.led_blink_color = color]
  IN  [set_led_color(s1, color) EXCEPT !.led_blink_is_on = TRUE]

start_led_blink(s, color, blink_count) ==
  LET s1 == [s EXCEPT !.led_blink_active = TRUE,
                      !.led_blink_count = 0,
                      !.led_blink_max_count = blink_count * 2,
                      !.led_blink_last_time = s.now,
                      !.led_blink_is_on = FALSE,
                      !.led_blink_color = color]
  IN  [set_led_color(s1, color) EXCEPT !.led_blink_is_on = TRUE]

update_led_blink(s) ==
  IF ~s.led_blink_active THEN s
  ELSE IF ticks_diff(s.now, s.led_blink_last_time) >= led_blink_interval
  THEN LET s1 == [s EXCEPT !.led_blink_count = @ + 1, !.led_blink_last_time = s.now]
       IN  IF s1.led_blink_count >= s1.led_blink_max_count
           THEN [set_led_color(s1, LED_OFF) EXCEPT !.led_blink_active = FALSE,
                                                   !.led_blink_is_on = FALSE]
           ELSE IF s1.led_blink_is_on
           THEN [set_led_color(s1, LED_OFF) EXCEPT !.led_blink_is_on = FALSE]
           ELSE [set_led_color(s1, s1.led_blink_color) EXCEPT !.led_blink_is_on = TRUE]
  ELSE s

handle_motion_detected(s) ==
  IF s.current_state = ALARM_DISABLED
  THEN safe_mqtt_publish(s, topic_pub, "MOTION_DETECTED", <<>>)
  ELSE LET s1 == safe_mqtt_publish(s, topic_pub, "MOTION_DETECTED", <<>>)
       IN  IF s1.current_state = ALARM_ACTIVE THEN s1
           ELSE IF s1.current_state = READY
           THEN set_led_color([s1 EXCEPT !.motion_start_time = s1.now,
                                         !.current_state = MOTION_DETECTED], LED_ORANGE)
           ELSE s1

\* a variant that reports the stop without leaving the grace period
handle_motion_stopped_report_only(s) ==
  safe_mqtt_publish(s, topic_pub, "MOTION_STOPPED", <<>>)

handle_motion_stopped(s) ==
  LET s1 == safe_mqtt_publish(s, topic_pub, "MOTION_STOPPED", <<>>)
  IN  IF s1.current_state = ALARM_DISABLED THEN s1
      ELSE IF s1.current_state = ALARM_ACTIVE THEN s1
      ELSE IF s1.current_state = MOTION_DETECTED
      THEN set_led_color([s1 EXCEPT !.current_state = READY], LED_OFF)
      ELSE s1

activate_alarm(s) ==
  IF s.current_state = ALARM_DISABLED THEN s
  ELSE LET s1 == [s EXCEPT !.current_state = ALARM_ACTIVE, !.manually_activated = FALSE]
           s2 == send_uart_command(s1, CMD_SET_BUZZER_ON)
           s3 == set_led_color(s2, LED_RED)
       IN  safe_mqtt_publish(s3, topic_pub, "ALARM_TRIGGERED", <<>>)

\* a variant that fires when the grace period is reached, not exceeded
check_motion_timeout_at(s) ==
  IF s.current_state = MOTION_DETECTED
     /\ ticks_diff(s.now, s.motion_start_time) >= motion_grace_period
  THEN activate_alarm(s)
  ELSE s

check_motion_timeout(s) ==
  IF s.current_state = MOTION_DETECTED
     /\ ticks_diff(s.now, s.motion_start_time) > motion_grace_period
  THEN activate_alarm(s)
  ELSE s

handle_rfid_detected(s, secret_key) ==
  safe_mqtt_publish([s EXCEPT !.current_rfid_secret = secret_key],
                    topic_auth_request, "AUTH_REQUEST:", secret_key)

\* a variant without the manual-arm guard
handle_auth_success_unguarded(s) ==
  LET s1 == [s EXCEPT !.current_state = ALARM_DISABLED, !.alarm_disabled_time = s.now]
      s2 == send_uart_command(s1, CMD_SET_BUZZER_OFF)
      s3 == set_led_color(s2, LED_GREEN)
      s4 == safe_mqtt_publish(s3, topic_auth_request, "ACK_AUTH_SUCCESS", <<>>)
  IN  safe_mqtt_publish(s4, topic_pub, "ALARM_DISABLED_RFID", <<>>)

handle_auth_success(s) ==
  IF s.manually_activated /\ s.current_state = ALARM_ACTIVE
  THEN LET s1 == safe_mqtt_publish(s, topic_auth_request, "ACK_AUTH_SUCCESS", <<>>)
       IN  safe_mqtt_publish(s1, topic_pub, "AUTH_SUCCESS_BLOCKED", <<>>)
  ELSE LET s1 == [s EXCEPT !.current_state = ALARM_DISABLED, !.alarm_disabled_time = s.now]
           s2 == send_uart_command(s1, CMD_SET_BUZZER_OFF)
           s3 == set_led_color(s2, LED_GREEN)
           s4 == safe_mqtt_publish(s3, topic_auth_request, "ACK_AUTH_SUCCESS", <<>>)
       IN  safe_mqtt_publish(s4, topic_pub, "ALARM_DISABLED_RFID", <<>>)

handle_auth_failed(s) ==
  LET s1 == start_led_blink(s, LED_RED, 3)
      s2 == safe_mqtt_publish(s1, topic_auth_request, "ACK_AUTH_FAILED", <<>>)
  IN  safe_mqtt_publish(s2, topic_pub, "AUTH_FAILED", <<>>)

disable_alarm(s) ==
  LET s1 == [s EXCEPT !.current_state = ALARM_DISABLED]
      s2 == send_uart_command(s1, CMD_SET_BUZZER_OFF)
      s3 == set_led_color(s2, LED_GREEN)
  IN  safe_mqtt_publish(s3, topic_pub, "ACK_CMD_DISABLE_ALARM", <<>>)

activate_alarm_manual(s) ==
  LET s1 == [s EXCEPT !.current_state = ALARM_ACTIVE,
                      !.manually_activated = TRUE,
                      !.alarm_disable_permanent = FALSE,
                      !.alarm_disable_end_time = 0]
      s2 == send_uart_command(s1, CMD_SET_BUZZER_ON)
      s3 == set_led_color(s2, LED_RED)
      s4 == safe_mqtt_publish(s3, topic_pub, "ALARM_TRIGGERED", <<>>)
  IN  safe_mqtt_publish(s4, topic_pub, "ACK_CMD_ACTIVATE_ALARM", <<>>)

disable_alarm_permanent(s) ==
  LET s1 == [s EXCEPT !.current_state = ALARM_DISABLED,
                      !.manually_activated = FALSE,
                      !.alarm_disable_permanent = TRUE,
                      !.alarm_disable_end_time = 0]
      s2 == send_uart_command(s1, CMD_SET_BUZZER_OFF)
      s3 == set_led_color(s2, LED_GREEN)
  IN  safe_mqtt_publish(s3, topic_pub, "ACK_CMD_DISABLE_ALARM", <<>>)

\* alarm_disable_end_time is a Python int: the sum is not reduced to the clock's range
disable_alarm_timed(s, minutes) ==
  LET s1 == [s EXCEPT !.current_state = ALARM_DISABLED,
                      !.manually_activated = FALSE,
                      !.alarm_disable_permanent = FALSE,
                      !.alarm_disable_end_time = s.now + (minutes * 60 * 1000)]
      s2 == send_uart_command(s1, CMD_SET_BUZZER_OFF)
      s3 == set_led_color(s2, LED_GREEN)
  IN  safe_mqtt_publish(s3, topic_pub, "ACK_CMD_DISABLE_ALARM", <<>>)

enable_alarm(s) ==
  LET s1 == [s EXCEPT !.current_state = READY,
                      !.manually_activated = FALSE,
                      !.alarm_disable_permanent = FALSE,
                      !.alarm_disable_end_time = 0]
      s2 == send_uart_command(s1, CMD_SET_BUZZER_OFF)
      s3 == set_led_color(s2, LED_OFF)
  IN  safe_mqtt_publish(s3, topic_pub, "SECURITY_STATE:READY", <<>>)

\* a variant that also restarts the legacy disable timer
reset_alarm_restamped(s) ==
  LET s1 == [s EXCEPT !.current_state = READY,
                      !.manually_activated = FALSE,
                      !.alarm_disable_permanent = FALSE,
                      !.alarm_disable_end_time = 0,
                      !.alarm_disabled_time = s.now]
      s2 == send_uart_command(s1, CMD_SET_BUZZER_OFF)
      s3 == set_led_color(s2, LED_OFF)
      s4 == safe_mqtt_publish(s3, topic_pub, "ALARM_RESET", <<>>)
  IN  safe_mqtt_publish(s4, topic_pub, "SECURITY_STATE:READY", <<>>)

reset_alarm(s) ==
  LET s1 == [s EXCEPT !.current_state = READY,
                      !.manually_activated = FALSE,
                      !.alarm_disable_permanent = FALSE,
                      !.alarm_disable_end_time = 0]
      s2 == send_uart_command(s1, CMD_SET_BUZZER_OFF)
      s3 == set_led_color(s2, LED_OFF)
      s4 == safe_mqtt_publish(s3, topic_pub, "ALARM_RESET", <<>>)
  IN  safe_mqtt_publish(s4, topic_pub, "SECURITY_STATE:READY", <<>>)

handle_button_pressed(s) == reset_alarm(s)

prepare_rfid_write_mode(s, secret_key) ==
  LET s1 == [s EXCEPT !.current_state = RFID_WRITE_MODE]
      s2 == send_uart_command_with_data(s1, CMD_RFID_WRITE_PREPARE, secret_key)
  IN  safe_mqtt_publish(s2, topic_pub, "STATUS_RFID_WRITE_PREPARED:", secret_key)

\* a variant that forwards the confirm command whatever the state
confirm_rfid_write_mode_unchecked(s) ==
  safe_mqtt_publish(send_uart_command(s, CMD_RFID_WRITE_CONFIRM),
                    topic_pub, "STATUS_RFID_WRITE_ACTIVE", <<>>)

confirm_rfid_write_mode(s) ==
  IF s.current_state = RFID_WRITE_MODE
  THEN safe_mqtt_publish(send_uart_command(s, CMD_RFID_WRITE_CONFIRM),
                         topic_pub, "STATUS_RFID_WRITE_ACTIVE", <<>>)
  ELSE safe_mqtt_publish(s, topic_pub, "ERROR_RFID_WRITE_NOT_PREPARED", <<>>)

initialize_rfid_write(s) ==
  IF s.current_state = RFID_WRITE_MODE
  THEN safe_mqtt_publish(s, topic_pub, "ACK_CMD_RFID_WRITE_INITALIZE", <<>>)
  ELSE s

abort_operation(s) ==
  LET s1 == [s EXCEPT !.current_state = READY]
      s2 == send_uart_command(s1, CMD_RFID_NORMAL_MODE)
      s3 == set_led_color(s2, LED_OFF)
  IN  safe_mqtt_publish(s3, topic_pub, "ACK_CMD_ABORT", <<>>)

\* time.ticks_ms() >= alarm_disable_end_time compares the wrapped clock with the
\* unwrapped sum stored by disable_alarm_timed
\* a variant without the permanent-disable guard
check_alarm_timeout_unguarded(s) ==
  IF s.current_state = ALARM_DISABLED
  THEN IF s.alarm_disable_end_time > 0 /\ s.now >= s.alarm_disable_end_time
       THEN enable_alarm(s)
       ELSE IF s.alarm_disable_end_time = 0
               /\ ticks_diff(s.now, s.alarm_disabled_time) > alarm_disable_duration
       THEN safe_mqtt_publish(set_led_color([s EXCEPT !.current_state = READY], LED_OFF),
                              topic_pub, "ALARM_REARMED", <<>>)
       ELSE s
  ELSE s

check_alarm_timeout(s) ==
  IF s.current_state = ALARM_DISABLED
  THEN IF s.alarm_disable_permanent THEN s
       ELSE IF s.alarm_disable_end_time > 0 /\ s.now >= s.alarm_disable_end_time
       THEN enable_alarm(s)
       ELSE IF s.alarm_disable_end_time = 0
               /\ ticks_diff(s.now, s.alarm_disabled_time) > alarm_disable_duration
       THEN safe_mqtt_publish(set_led_color([s EXCEPT !.current_state = READY], LED_OFF),
                              topic_pub, "ALARM_REARMED", <<>>)
       ELSE s
  ELSE s

handle_arduino_heartbeat(s) ==
  LET s1 == [s EXCEPT !.last_arduino_heartbeat = s.now]
      s2 == safe_mqtt_publish(s1, topic_pub, "ARDUINO_HEARTBEAT", <<>>)
  IN  IF ~s2.arduino_connected
      THEN safe_mqtt_publish([s2 EXCEPT !.arduino_connected = TRUE],
                             topic_pub, "ARDUINO_CONNECTED", <<>>)
      ELSE s2

\* a variant that does not look at the connected mark
check_arduino_connection_unmarked(s) ==
  IF ticks_diff(s.now, s.last_arduino_heartbeat) > arduino_timeout
  THEN safe_mqtt_publish([s EXCEPT !.arduino_connected = FALSE],
                         topic_pub, "ARDUINO_DISCONNECTED", <<>>)
  ELSE s

check_arduino_connection(s) ==
  IF s.arduino_connected
     /\ ticks_diff(s.now, s.last_arduino_heartbeat) > arduino_timeout
  THEN safe_mqtt_publish([s EXCEPT !.arduino_connected = FALSE],
                         topic_pub, "ARDUINO_DISCONNECTED", <<>>)
  ELSE s

\* MSG_RFID_WRITE_COMPLETED: process_arduino_message has no "global current_state",
\* so "current_state = SecurityState.READY" (line 727) binds a local name and the
\* module-level current_state keeps its value
process_arduino_message(s, msg_code) ==
  CASE msg_code = MSG_STATUS_READY -> safe_mqtt_publish(s, topic_pub, "STATUS_READY", <<>>)
    [] msg_code = MSG_MOTION_DETECTED -> handle_motion_detected(s)
    [] msg_code = MSG_MOTION_STOPPED -> handle_motion_stopped(s)
    [] msg_code = MSG_RFID_DETECTED -> s
    [] msg_code = MSG_BUTTON_PRESSED -> handle_button_pressed(s)
    [] msg_code = MSG_RFID_WRITE_SUCCESS ->
         safe_mqtt_publish(s, topic_pub, "STATUS_RFID_WRITE_SUCCESS", <<>>)
    [] msg_code = MSG_RFID_WRITE_FAILED ->
         safe_mqtt_publish(s, topic_pub, "STATUS_RFID_WRITE_FAILED", <<>>)
    [] msg_code = MSG_RFID_WRITE_COMPLETED ->
         set_led_color(safe_mqtt_publish(s, topic_pub, "STATUS_RFID_WRITE_COMPLETED", <<>>),
                       LED_OFF)
    [] msg_code = MSG_HEARTBEAT -> handle_arduino_heartbeat(s)
    [] msg_code = MSG_STATUS_UPDATE -> s
    [] OTHER -> s

----------------------------------------------------------------------------
(* MQTT callback *)

\* the slice offsets of lines 161 and 166
TIMED_SLICE == 25
PREPARE_SLICE == 23

\* an exception raised inside the try block (int() on a malformed number) is
\* caught at line 175 before any state was changed
sub_cb(s, topic, msg_str) ==
  IF topic = topic_auth_response
  THEN IF msg_str = T_AUTH_SUCCESS THEN handle_auth_success(s)
       ELSE IF msg_str = T_AUTH_FAILED THEN handle_auth_failed(s)
       ELSE s
  ELSE IF msg_str = T_CMD_DISABLE_ALARM THEN disable_alarm(s)
  ELSE IF msg_str = T_CMD_ACTIVATE_ALARM THEN activate_alarm_manual(s)
  ELSE IF msg_str = T_CMD_RESET_ALARM THEN reset_alarm(s)
  ELSE IF msg_str = T_CMD_DISABLE_ALARM_PERMANENT THEN disable_alarm_permanent(s)
  ELSE IF StartsWith(msg_str, T_CMD_DISABLE_ALARM_TIMED)
  THEN LET minutes == py_int(Slice(msg_str, TIMED_SLICE))
       IN  IF minutes.ok THEN disable_alarm_timed(s, minutes.val) ELSE s
  ELSE IF msg_str = T_CMD_ENABLE_ALARM THEN enable_alarm(s)
  ELSE IF StartsWith(msg_str, T_CMD_RFID_WRITE_PREPARE)
  THEN prepare_rfid_write_mode(s, Slice(msg_str, PREPARE_SLICE))
  ELSE IF msg_str = T_CMD_RFID_WRITE_CONFIRM THEN confirm_rfid_write_mode(s)
  ELSE IF msg_str = T_CMD_ABORT THEN abort_operation(s)
  ELSE IF msg_str = T_CMD_RFID_WRITE_INITALIZE THEN initialize_rfid_write(s)
  ELSE s

----------------------------------------------------------------------------
(* UART decoder of the main loop (main.py 782-852) *)

\* uart.any() stayed false during the lookahead window
NoByte == 0 - 1

Simple(opcode) == [kind |-> "Simple", opcode |-> opcode, payload |-> <<>>]

WithData(opcode, payload) == [kind |-> "WithData", opcode |-> opcode, payload |-> payload]

Dispatched(s, m) == [s EXCEPT !.rx_msgs = Append(@, m)]

\* lines 790-816: the buffer holds a ':' and the newline ends the frame
ParseFrame(s) ==
  LET k == FirstColon(s.uart_buffer)
      part0 == SubSeq(s.uart_buffer, 1, k - 1)
      part1 == SubSeq(s.uart_buffer, k + 1, Len(s.uart_buffer))
      dec == decode_utf8(part1)
  IN  IF Len(part0) >= 1
      THEN IF dec.ok
           THEN LET msg_code == part0[1]
                    data == strip(dec.str)
                    s1 == Dispatched(s, WithData(msg_code, data))
                IN  IF msg_code = MSG_RFID_READ_SUCCESS THEN handle_rfid_detected(s1, data)
                    ELSE IF msg_code = MSG_RFID_READ_FAILED
                    THEN safe_mqtt_publish(s1, topic_pub, "RFID_READ_FAILED", <<>>)
                    ELSE IF msg_code = MSG_STATUS_UPDATE
                    THEN safe_mqtt_publish(s1, topic_pub, "ARDUINO_STATUS:", data)
                    ELSE IF msg_code = MSG_HEARTBEAT THEN handle_arduino_heartbeat(s1)
                    ELSE s1
           ELSE s
      ELSE s

\* does the byte c, read with this buffer, start the lookahead of line 824
Lookahead(buf, c) ==
  c # NEWLINE /\ buf = <<>> /\ OPCODE_MIN <= c /\ c <= OPCODE_MAX

\* one pass of "while uart.any()": c is the byte read, nb the byte the lookahead
\* reads within its window (NoByte: the window ends with no byte)
uart_read(s, c, nb) ==
  LET s0 == [s EXCEPT !.rx_hist = IF s.uart_buffer = <<>> THEN <<c>> ELSE Append(@, c),
                      !.rx_msgs = IF s.uart_buffer = <<>> THEN <<>> ELSE @]
  IN  IF c = NEWLINE
      THEN LET s1 == IF s0.uart_buffer # <<>> /\ FirstColon(s0.uart_buffer) # 0
                     THEN ParseFrame(s0) ELSE s0
           IN  [s1 EXCEPT !.uart_buffer = <<>>]
      ELSE LET s1 == [s0 EXCEPT !.uart_buffer = Append(@, c)]
           IN  IF Len(s1.uart_buffer) = 1 /\ OPCODE_MIN <= c /\ c <= OPCODE_MAX
               THEN IF nb = NoByte
                    THEN LET s2 == [s1 EXCEPT !.now = (@ + lookahead_timeout) % TICKS_PERIOD]
                             s3 == process_arduino_message(Dispatched(s2, Simple(c)), c)
                         IN  [s3 EXCEPT !.uart_buffer = <<>>]
                    ELSE IF nb = COLON
                    THEN [s1 EXCEPT !.uart_buffer = Append(@, nb),
                                    !.rx_hist = Append(@, nb)]
                    ELSE LET s2 == [s1 EXCEPT !.uart_buffer = Append(@, nb),
                                              !.rx_hist = Append(@, nb)]
                             s3 == process_arduino_message(Dispatched(s2, Simple(c)), c)
                         IN  [s3 EXCEPT !.uart_buffer = <<nb>>]
               ELSE s1

\* The lookahead of lines 824-852 one loop iteration at a time.
\* lines 819-828: the byte c is appended to the empty buffer and the window opens
lookahead_begin(s, c) ==
  [s EXCEPT !.uart_buffer = <<c>>,
            !.rx_hist = <<c>>,
            !.rx_msgs = <<>>,
            !.lookahead = [active |-> TRUE, start_time |-> s.now]]

\* a variant that compares tick values instead of taking their wrapped difference
lookahead_open_absolute(s) == s.now - s.lookahead.start_time < lookahead_timeout

\* line 830: the loop condition
lookahead_open(s) == ticks_diff(s.now, s.lookahead.start_time) < lookahead_timeout

\* lines 831-846: uart.any() is true and the byte nb is read; both branches break
lookahead_byte(s, nb) ==
  LET byte_val == s.uart_buffer[1]
      s1 == [s EXCEPT !.uart_buffer = Append(@, nb),
                      !.rx_hist = Append(@, nb),
                      !.lookahead = [@ EXCEPT !.active = FALSE]]
  IN  IF nb = COLON THEN s1
      ELSE [process_arduino_message(Dispatched(s1, Simple(byte_val)), byte_val)
              EXCEPT !.uart_buffer = <<nb>>]

\* line 847: uart.any() is false, time.sleep(0.001) lets d ms pass
lookahead_sleep(s, d) == [s EXCEPT !.now = (@ + d) % TICKS_PERIOD]

\* lines 848-852: the loop condition failed, the else clause of the while runs
lookahead_timed_out(s) ==
  LET byte_val == s.uart_buffer[1]
      s1 == [s EXCEPT !.lookahead = [@ EXCEPT !.active = FALSE]]
  IN  [process_arduino_message(Dispatched(s1, Simple(byte_val)), byte_val)
         EXCEPT !.uart_buffer = <<>>]

----------------------------------------------------------------------------
(* The device end of the UART: what the Arduino last received *)

RECURSIVE BuzzerAfter(_, _)
BuzzerAfter(b, frames) ==
  IF frames = <<>> THEN b
  ELSE BuzzerAfter(IF Head(frames)[1] = CMD_SET_BUZZER_ON THEN TRUE
                   ELSE IF Head(frames)[1] = CMD_SET_BUZZER_OFF THEN FALSE
                   ELSE b, Tail(frames))

RECURSIVE LedAfter(_, _)
LedAfter(l, frames) ==
  IF frames = <<>> THEN l
  ELSE LedAfter(IF Head(frames)[1] = CMD_SET_LED_RGB
                THEN SubSeq(Head(frames), 3, Len(Head(frames)) - 1)
                ELSE l, Tail(frames))

\* the payload the device holds after set_led_color(color)
LedPayload(color) == encode_utf8(RgbData(color))

\* the LED frames among the frames written at time t, added to a log that is on
RECURSIVE LedLogAfter(_, _, _)
LedLogAfter(log, frames, t) ==
  IF frames = <<>> \/ ~log.on THEN log
  ELSE LedLogAfter(IF Head(frames)[1] = CMD_SET_LED_RGB
                   THEN [log EXCEPT !.cmds = Append(@, [t |-> t,
                                                        data |-> SubSeq(Head(frames), 3, Len(Head(frames)) - 1)])]
                   ELSE log, Tail(frames), t)

\* the device liveness events among published messages, in order
LivenessEvents(msgs) ==
  SelectSeq(msgs, LAMBDA m : m.text \in {"ARDUINO_CONNECTED", "ARDUINO_DISCONNECTED"})

LivenessAfter(l, msgs) ==
  l \o [i \in 1..Len(LivenessEvents(msgs)) |-> LivenessEvents(msgs)[i].text]

----------------------------------------------------------------------------
(* Bounds and inputs *)

MaxAdvances == 3
MaxBuf == 4

\* clock values at which the run starts: boot, and shortly before the clock wraps
StartTimes == {0, TICKS_PERIOD - 30000}

Keys == {<<"A">>}

Msg(topic, text) == [topic |-> topic, msg |-> text]

\* Spec: every handler of the controller, one text each
MqttMessages ==
  {Msg(topic_auth_response, m) : m \in {T_AUTH_SUCCESS, T_AUTH_FAILED}}
  \cup {Msg(topic_sub, m) :
          m \in {T_CMD_DISABLE_ALARM, T_CMD_ACTIVATE_ALARM, T_CMD_RESET_ALARM,
                 T_CMD_DISABLE_ALARM_PERMANENT, T_CMD_ENABLE_ALARM, T_CMD_RFID_WRITE_CONFIRM,
                 T_CMD_ABORT}}
  \cup {Msg(topic_sub, T_CMD_DISABLE_ALARM_TIMED \o <<"0", "1">>)}
  \cup {Msg(topic_sub, T_CMD_RFID_WRITE_PREPARE \o k) : k \in Keys}

Delays == {1, 5000, 60000}

\* SpecCmd: the minutes fields of CMD_DISABLE_ALARM_TIMED texts
TimedFields == {<<>>, <<"x">>, <<"x", "5">>, <<"0">>, <<"1">>, <<"5">>, <<"0", "1">>, <<"1", "0">>,
                <<"1", "5">>}

\* SpecCmd: the timed-disable texts, the two steps of the RFID write, and texts
\* around them
CmdMessages ==
  {Msg(topic_sub, T_CMD_DISABLE_ALARM_TIMED \o f) : f \in TimedFields}
  \cup {Msg(topic_sub, m) : m \in {T_CMD_ENABLE_ALARM, T_CMD_RFID_WRITE_INITALIZE, T_CMD_UNKNOWN,
                                   T_CMD_RFID_WRITE_CONFIRM}}
  \cup {Msg(topic_sub, T_CMD_RFID_WRITE_PREPARE \o k) : k \in Keys}

CmdDelays == {1, 60000}

\* SpecCmd: a device opcode in [1,28] that process_arduino_message has no branch for
UnknownOpcodes == {13}

\* SpecBlink: clock advances allowed, their sizes, and the start times
MaxBlinkAdvances == 8

BlinkDelays == {100, 200}

BlinkStartTimes == {0, TICKS_PERIOD - 500}

\* SpecRfid: the bytes of RFID-read frames (opcode 6 first, then 'A' and
\* newline; the ':' arrives within the lookahead window), and the auth results
RfidFirstBytes == {MSG_RFID_READ_SUCCESS}

RfidNextBytes == {65, NEWLINE}

AuthMessages == {Msg(topic_auth_response, m) : m \in {T_AUTH_SUCCESS, T_AUTH_FAILED}}

\* SpecLive: clock advances allowed and their sizes
MaxLiveAdvances == 5

LiveDelays == {30000, 30001}

\* SpecLook: sleeps allowed inside lookahead windows, the time one sleep takes,
\* the start times, and the bytes read
MaxLookAdvances == 12

LookDelays == {1, 3}

LookStartTimes == {0, TICKS_PERIOD - 5}

LookFirstBytes == {MSG_MOTION_DETECTED}

LookNextBytes == {COLON, MSG_MOTION_STOPPED}

\* Spec: the single-byte device messages that change the controller
RxBytes == {MSG_MOTION_DETECTED, MSG_MOTION_STOPPED, MSG_BUTTON_PRESSED,
            MSG_RFID_WRITE_COMPLETED}

\* SpecDecoder: bytes that start a frame, and bytes that follow within a frame
\* or within the lookahead window (200 stands for a byte outside [1,28])
DecFirstBytes == {MSG_RFID_READ_SUCCESS, MSG_RFID_READ_FAILED, MSG_STATUS_UPDATE, NEWLINE, COLON, 200}

DecNextBytes == {MSG_MOTION_DETECTED, NEWLINE, COLON, 32}

----------------------------------------------------------------------------
(* The main loop *)

Event(kind, topic, msg, byte, nb) ==
  [kind |-> kind, topic |-> topic, msg |-> msg, byte |-> byte, nb |-> nb]

Commit(s, ev) ==
  /\ now' = s.now
  /\ current_state' = s.current_state
  /\ motion_start_time' = s.motion_start_time
  /\ alarm_disabled_time' = s.alarm_disabled_time
  /\ current_rfid_secret' = s.current_rfid_secret
  /\ manually_activated' = s.manually_activated
  /\ alarm_disable_end_time' = s.alarm_disable_end_time
  /\ alarm_disable_permanent' = s.alarm_disable_permanent
  /\ last_arduino_heartbeat' = s.last_arduino_heartbeat
  /\ arduino_connected' = s.arduino_connected
  /\ led_blink_active' = s.led_blink_active
  /\ led_blink_count' = s.led_blink_count
  /\ led_blink_max_count' = s.led_blink_max_count
  /\ led_blink_last_time' = s.led_blink_last_time
  /\ led_blink_is_on' = s.led_blink_is_on
  /\ led_blink_color' = s.led_blink_color
  /\ uart_buffer' = s.uart_buffer
  /\ rx_hist' = s.rx_hist
  /\ rx_msgs' = s.rx_msgs
  /\ uart_tx' = s.uart_tx
  /\ mqtt_tx' = s.mqtt_tx
  /\ buzzer' = BuzzerAfter(buzzer, s.uart_tx)
  /\ led' = LedAfter(led, s.uart_tx)
  /\ last_event' = ev
  /\ led_log' = LedLogAfter(led_log, s.uart_tx, s.now)
  /\ liveness' = LivenessAfter(liveness, s.mqtt_tx)
  /\ lookahead' = s.lookahead

Init ==
  /\ pc = "mqtt"
  /\ now \in StartTimes
  /\ advances = 0
  /\ current_state = READY
  /\ motion_start_time = 0
  /\ alarm_disabled_time = 0
  /\ current_rfid_secret = None
  /\ manually_activated = FALSE
  /\ alarm_disable_end_time = 0
  /\ alarm_disable_permanent = FALSE
  /\ last_arduino_heartbeat = 0
  /\ arduino_connected = FALSE
  /\ led_blink_active = FALSE
  /\ led_blink_count = 0
  /\ led_blink_max_count = 0
  /\ led_blink_last_time = 0
  /\ led_blink_is_on = FALSE
  /\ led_blink_color = LED_OFF
  /\ uart_buffer = <<>>
  /\ rx_hist = <<>>
  /\ rx_msgs = <<>>
  /\ uart_tx = <<>>
  /\ mqtt_tx = <<>>
  /\ buzzer = FALSE
  /\ led = <<>>
  /\ last_event = Event("init", "", <<>>, NoByte, NoByte)
  /\ led_log = [on |-> FALSE, cmds |-> <<>>]
  /\ liveness = <<>>
  /\ lookahead = [active |-> FALSE, start_time |-> 0]

\* safe_mqtt_check() with a message waiting: check_msg() calls sub_cb once
MqttMessage(m) ==
  /\ pc = "mqtt"
  /\ pc' = "motion"
  /\ Commit(sub_cb(Globals, m.topic, m.msg), Event("mqtt", m.topic, m.msg, NoByte, NoByte))
  /\ UNCHANGED advances

\* safe_mqtt_check() with no message waiting
MqttIdle ==
  /\ pc = "mqtt"
  /\ pc' = "motion"
  /\ Commit(Globals, Event("mqtt_idle", "", <<>>, NoByte, NoByte))
  /\ UNCHANGED advances

CheckMotionTimeout ==
  /\ pc = "motion"
  /\ pc' = "alarm"
  /\ Commit(check_motion_timeout(Globals), Event("check_motion_timeout", "", <<>>, NoByte, NoByte))
  /\ UNCHANGED advances

CheckAlarmTimeout ==
  /\ pc = "alarm"
  /\ pc' = "conn"
  /\ Commit(check_alarm_timeout(Globals), Event("check_alarm_timeout", "", <<>>, NoByte, NoByte))
  /\ UNCHANGED advances

CheckArduinoConnection ==
  /\ pc = "conn"
  /\ pc' = "blink"
  /\ Commit(check_arduino_connection(Globals),
            Event("check_arduino_connection", "", <<>>, NoByte, NoByte))
  /\ UNCHANGED advances

UpdateLedBlink ==
  /\ pc = "blink"
  /\ pc' = "uart"
  /\ Commit(update_led_blink(Globals), Event("update_led_blink", "", <<>>, NoByte, NoByte))
  /\ UNCHANGED advances

\* one byte read by "while uart.any()"; the lookahead, when the byte starts one,
\* is part of the same pass and its timeout advances the clock
UartRead(c, nb) ==
  /\ pc = "uart"
  /\ pc' = "uart"
  /\ c # NEWLINE => Len(uart_buffer) < MaxBuf
  /\ IF Lookahead(uart_buffer, c)
     THEN nb = NoByte => advances < MaxAdvances
     ELSE nb = NoByte
  /\ advances' = IF Lookahead(uart_buffer, c) /\ nb = NoByte THEN advances + 1 ELSE advances
  /\ Commit(uart_read(Globals, c, nb), Event("uart", "", <<>>, c, nb))

\* uart.any() is false: the loop sleeps
UartIdle ==
  /\ pc = "uart"
  /\ pc' = "sleep"
  /\ Commit(Globals, Event("uart_idle", "", <<>>, NoByte, NoByte))
  /\ UNCHANGED advances

\* time.sleep(0.001) and the time the iteration took
Sleep(d) ==
  /\ pc = "sleep"
  /\ pc' = "mqtt"
  /\ advances < MaxAdvances
  /\ advances' = advances + 1
  /\ Commit([Globals EXCEPT !.now = (@ + d) % TICKS_PERIOD],
            Event("sleep", "", <<>>, NoByte, NoByte))

Next ==
  \/ \E m \in MqttMessages : MqttMessage(m)
  \/ MqttIdle
  \/ CheckMotionTimeout
  \/ CheckAlarmTimeout
  \/ CheckArduinoConnection
  \/ UpdateLedBlink
  \/ \E c \in RxBytes : UartRead(c, NoByte)
  \/ UartIdle
  \/ \E d \in Delays : Sleep(d)

Spec == Init /\ [][Next]_vars

\* the loop fed with control-plane texts and unknown device opcodes
NextCmd ==
  \/ \E m \in CmdMessages : MqttMessage(m)
  \/ MqttIdle
  \/ CheckMotionTimeout
  \/ CheckAlarmTimeout
  \/ CheckArduinoConnection
  \/ UpdateLedBlink
  \/ \E c \in UnknownOpcodes : UartRead(c, NoByte)
  \/ UartIdle
  \/ \E d \in CmdDelays : Sleep(d)

SpecCmd == Init /\ [][NextCmd]_vars

\* the loop fed with RFID-read frames and auth results
NextRfid ==
  \/ \E m \in AuthMessages : MqttMessage(m)
  \/ MqttIdle
  \/ CheckMotionTimeout
  \/ CheckAlarmTimeout
  \/ CheckArduinoConnection
  \/ UpdateLedBlink
  \/ \E c \in IF uart_buffer = <<>> THEN RfidFirstBytes ELSE RfidNextBytes,
        nb \in {COLON, NoByte} : UartRead(c, nb)
  \/ UartIdle
  \/ Sleep(1)

SpecRfid == Init /\ [][NextRfid]_vars

\* the loop fed with heartbeats (the single byte, or the frame "\x0c:\n") and
\* silences of about 30 s
SleepLive(d) ==
  /\ pc = "sleep"
  /\ pc' = "mqtt"
  /\ advances < MaxLiveAdvances
  /\ advances' = advances + 1
  /\ Commit([Globals EXCEPT !.now = (@ + d) % TICKS_PERIOD],
            Event("sleep", "", <<>>, NoByte, NoByte))

NextLive ==
  \/ MqttMessage(Msg(topic_sub, T_CMD_ACTIVATE_ALARM))
  \/ MqttIdle
  \/ CheckMotionTimeout
  \/ CheckAlarmTimeout
  \/ CheckArduinoConnection
  \/ UpdateLedBlink
  \/ \E c \in IF uart_buffer = <<>> THEN {MSG_HEARTBEAT} ELSE {NEWLINE},
        nb \in {COLON, NoByte} : UartRead(c, nb)
  \/ UartIdle
  \/ \E d \in LiveDelays : SleepLive(d)

SpecLive == Init /\ [][NextLive]_vars

\* the loop with the LED watched: one AUTH_FAILED result, then nothing but time
InitBlink ==
  /\ pc = "mqtt"
  /\ now \in BlinkStartTimes
  /\ advances = 0
  /\ current_state = READY
  /\ motion_start_time = 0
  /\ alarm_disabled_time = 0
  /\ current_rfid_secret = None
  /\ manually_activated = FALSE
  /\ alarm_disable_end_time = 0
  /\ alarm_disable_permanent = FALSE
  /\ last_arduino_heartbeat = 0
  /\ arduino_connected = FALSE
  /\ led_blink_active = FALSE
  /\ led_blink_count = 0
  /\ led_blink_max_count = 0
  /\ led_blink_last_time = 0
  /\ led_blink_is_on = FALSE
  /\ led_blink_color = LED_OFF
  /\ uart_buffer = <<>>
  /\ rx_hist = <<>>
  /\ rx_msgs = <<>>
  /\ uart_tx = <<>>
  /\ mqtt_tx = <<>>
  /\ buzzer = FALSE
  /\ led = <<>>
  /\ last_event = Event("init", "", <<>>, NoByte, NoByte)
  /\ led_log = [on |-> TRUE, cmds |-> <<>>]
  /\ liveness = <<>>
  /\ lookahead = [active |-> FALSE, start_time |-> 0]

\* the AUTH_FAILED result, delivered while no LED frame has been written yet
AuthFailedOnce ==
  /\ led_log.cmds = <<>>
  /\ MqttMessage(Msg(topic_auth_response, T_AUTH_FAILED))

SleepBlink(d) ==
  /\ pc = "sleep"
  /\ pc' = "mqtt"
  /\ advances < MaxBlinkAdvances
  /\ advances' = advances + 1
  /\ Commit([Globals EXCEPT !.now = (@ + d) % TICKS_PERIOD],
            Event("sleep", "", <<>>, NoByte, NoByte))

NextBlink ==
  \/ AuthFailedOnce
  \/ MqttIdle
  \/ CheckMotionTimeout
  \/ CheckAlarmTimeout
  \/ CheckArduinoConnection
  \/ UpdateLedBlink
  \/ UartIdle
  \/ \E d \in BlinkDelays : SleepBlink(d)

SpecBlink == InitBlink /\ [][NextBlink]_vars

\* the loop at its first "while uart.any()": no message was waiting and no timer
\* was due
InitDecoder ==
  /\ pc = "uart"
  /\ now = 0
  /\ advances = 0
  /\ current_state = READY
  /\ motion_start_time = 0
  /\ alarm_disabled_time = 0
  /\ current_rfid_secret = None
  /\ manually_activated = FALSE
  /\ alarm_disable_end_time = 0
  /\ alarm_disable_permanent = FALSE
  /\ last_arduino_heartbeat = 0
  /\ arduino_connected = FALSE
  /\ led_blink_active = FALSE
  /\ led_blink_count = 0
  /\ led_blink_max_count = 0
  /\ led_blink_last_time = 0
  /\ led_blink_is_on = FALSE
  /\ led_blink_color = LED_OFF
  /\ uart_buffer = <<>>
  /\ rx_hist = <<>>
  /\ rx_msgs = <<>>
  /\ uart_tx = <<>>
  /\ mqtt_tx = <<>>
  /\ buzzer = FALSE
  /\ led = <<>>
  /\ last_event = Event("update_led_blink", "", <<>>, NoByte, NoByte)
  /\ led_log = [on |-> FALSE, cmds |-> <<>>]
  /\ liveness = <<>>
  /\ lookahead = [active |-> FALSE, start_time |-> 0]

\* the decoder draining an arbitrary byte stream
NextDecoder ==
  \/ \E c \in IF uart_buffer = <<>> THEN DecFirstBytes ELSE DecNextBytes,
        nb \in DecNextBytes \cup {NoByte} : UartRead(c, nb)
  \/ UartIdle

SpecDecoder == InitDecoder /\ [][NextDecoder]_vars

\* the decoder with its lookahead loop taken one iteration at a time
InitLook ==
  /\ pc = "uart"
  /\ now \in LookStartTimes
  /\ advances = 0
  /\ current_state = READY
  /\ motion_start_time = 0
  /\ alarm_disabled_time = 0
  /\ current_rfid_secret = None
  /\ manually_activated = FALSE
  /\ alarm_disable_end_time = 0
  /\ alarm_disable_permanent = FALSE
  /\ last_arduino_heartbeat = 0
  /\ arduino_connected = FALSE
  /\ led_blink_active = FALSE
  /\ led_blink_count = 0
  /\ led_blink_max_count = 0
  /\ led_blink_last_time = 0
  /\ led_blink_is_on = FALSE
  /\ led_blink_color = LED_OFF
  /\ uart_buffer = <<>>
  /\ rx_hist = <<>>
  /\ rx_msgs = <<>>
  /\ uart_tx = <<>>
  /\ mqtt_tx = <<>>
  /\ buzzer = FALSE
  /\ led = <<>>
  /\ last_event = Event("update_led_blink", "", <<>>, NoByte, NoByte)
  /\ led_log = [on |-> FALSE, cmds |-> <<>>]
  /\ liveness = <<>>
  /\ lookahead = [active |-> FALSE, start_time |-> 0]

\* "while uart.any()" reads a byte in [1,28] into the empty buffer; a window is
\* opened only while the sleeps it may need are still allowed
LookaheadBegin(c) ==
  /\ pc = "uart"
  /\ pc' = "uart"
  /\ ~lookahead.active
  /\ Lookahead(uart_buffer, c)
  /\ advances + lookahead_timeout <= MaxLookAdvances
  /\ Commit(lookahead_begin(Globals, c), Event("lookahead_begin", "", <<>>, c, NoByte))
  /\ UNCHANGED advances

LookaheadByte(nb) ==
  /\ pc = "uart"
  /\ pc' = "uart"
  /\ lookahead.active
  /\ lookahead_open(Globals)
  /\ Commit(lookahead_byte(Globals, nb), Event("lookahead_byte", "", <<>>, uart_buffer[1], nb))
  /\ UNCHANGED advances

LookaheadSleep(d) ==
  /\ pc = "uart"
  /\ pc' = "uart"
  /\ lookahead.active
  /\ lookahead_open(Globals)
  /\ advances < MaxLookAdvances
  /\ advances' = advances + 1
  /\ Commit(lookahead_sleep(Globals, d), Event("lookahead_sleep", "", <<>>, uart_buffer[1], NoByte))

LookaheadTimedOut ==
  /\ pc = "uart"
  /\ pc' = "uart"
  /\ lookahead.active
  /\ ~lookahead_open(Globals)
  /\ Commit(lookahead_timed_out(Globals),
            Event("lookahead_timed_out", "", <<>>, uart_buffer[1], NoByte))
  /\ UNCHANGED advances

\* what the loop does on its own while no byte arrives: an iteration that finds
\* uart.any() false and sleeps, or the else clause once the condition fails
LookaheadPoll ==
  \/ \E d \in LookDelays : LookaheadSleep(d)
  \/ LookaheadTimedOut

\* a newline read outside a window ends the frame or clears a kept byte
NewlineRead ==
  /\ ~lookahead.active
  /\ uart_buffer # <<>>
  /\ UartRead(NEWLINE, NoByte)

NextLook ==
  \/ \E c \in LookFirstBytes : LookaheadBegin(c)
  \/ \E nb \in LookNextBytes : LookaheadByte(nb)
  \/ LookaheadPoll
  \/ NewlineRead

\* the loop is running code: while a window is open and no byte arrives, the
\* next iteration is taken; the arrival of a byte is up to the device
SpecLook == InitLook /\ [][NextLook]_vars /\ WF_vars(LookaheadPoll)

----------------------------------------------------------------------------
(* Observations used by the properties *)

Published(text) ==
  \E i \in 1..Len(mqtt_tx) : mqtt_tx[i].topic = topic_pub /\ mqtt_tx[i].text = text

Sent(cmd) == \E i \in 1..Len(uart_tx) : uart_tx[i][1] = cmd

LedFrame(color) == Frame(CMD_SET_LED_RGB, RgbData(color))

\* the last step was sub_cb on this topic and text
GotMqtt(topic, text) ==
  last_event.kind = "mqtt" /\ last_event.topic = topic /\ last_event.msg = text

\* the last step read this byte as the first byte of a frame and its lookahead
\* window ended with no further byte
GotSingleByte(c) ==
  last_event.kind = "uart" /\ last_event.byte = c /\ last_event.nb = NoByte /\ rx_hist = <<c>>

----------------------------------------------------------------------------
(* C1 *)

\* C1: in every reachable state the manually-armed flag is true only if the
\* security state is AlarmActive.
C1_ManualOnlyWhenActive == manually_activated => current_state = ALARM_ACTIVE

----------------------------------------------------------------------------
(* C2 *)

\* C2: when the state is AlarmActive and the alarm was manually armed, an
\* AUTH_SUCCESS auth result leaves the state AlarmActive and the flag true,
\* publishes AUTH_SUCCESS_BLOCKED, and writes nothing to the device (no buzzer-off,
\* no LED command), so the buzzer and the LED stay as they were.
C2_AuthSuccessBlocked ==
  [][(current_state = ALARM_ACTIVE /\ manually_activated
      /\ GotMqtt(topic_auth_response, T_AUTH_SUCCESS)')
     => (/\ current_state' = ALARM_ACTIVE
         /\ manually_activated'
         /\ Published("AUTH_SUCCESS_BLOCKED")'
         /\ uart_tx' = <<>>
         /\ buzzer' = buzzer
         /\ led' = led)]_vars

C2_Witness ==
  /\ GotMqtt(topic_auth_response, T_AUTH_SUCCESS)
  /\ current_state = ALARM_ACTIVE
  /\ manually_activated
  /\ buzzer
  /\ Published("AUTH_SUCCESS_BLOCKED")

----------------------------------------------------------------------------
(* C3 *)

\* an event that ends a motion episode other than the grace timer: MotionStopped,
\* the rearm button (reset_alarm) or any control-plane message
EndsMotionEpisode(ev) ==
  \/ ev.kind = "mqtt"
  \/ ev.kind = "uart" /\ ev.byte \in {MSG_MOTION_STOPPED, MSG_BUTTON_PRESSED}

----------------------------------------------------------------------------
(* C4 *)

\* the clock value of a timed-disable deadline, and whether the clock has reached it
DeadlineReached(t, deadline) == ticks_diff(t, deadline % TICKS_PERIOD) >= 0

\* C4: DisableAlarmTimed(m) applied in Ready gives AlarmDisabled with the deadline
\* now + m*60 s; a timer check made with a timed deadline stored keeps the state
\* AlarmDisabled while the clock has not reached the deadline and, once it has,
\* moves the state to Ready with the disable mode and the manually-armed flag
\* cleared.
C4_TimedDisableExpires ==
  /\ [][(current_state = READY
         /\ GotMqtt(topic_sub, T_CMD_DISABLE_ALARM_TIMED \o <<"0", "1">>)')
        => (/\ current_state' = ALARM_DISABLED
            /\ ~alarm_disable_permanent'
            /\ alarm_disable_end_time' = now + 1 * 60 * 1000)]_vars
  /\ [][(/\ pc = "alarm"
         /\ current_state = ALARM_DISABLED
         /\ ~alarm_disable_permanent
         /\ alarm_disable_end_time > 0)
        => IF DeadlineReached(now, alarm_disable_end_time)
           THEN /\ current_state' = READY
                /\ alarm_disable_end_time' = 0
                /\ ~alarm_disable_permanent'
                /\ ~manually_activated'
           ELSE current_state' = ALARM_DISABLED]_vars

----------------------------------------------------------------------------
(* C5 *)

\* decimal texts and the integers they denote
TimedCases ==
  {[text |-> <<"0">>, m |-> 0], [text |-> <<"1">>, m |-> 1], [text |-> <<"5">>, m |-> 5],
   [text |-> <<"0", "1">>, m |-> 1], [text |-> <<"1", "0">>, m |-> 10],
   [text |-> <<"1", "5">>, m |-> 15]}

\* C5: the control-plane text "CMD_DISABLE_ALARM_TIMED:" followed by the decimal
\* digits of m is dispatched as DisableAlarmTimed(m) with exactly that m: the state
\* becomes AlarmDisabled with a deadline m minutes ahead.
C5_TimedMinutesParsed ==
  [][\A t \in TimedCases :
       GotMqtt(topic_sub, T_CMD_DISABLE_ALARM_TIMED \o t.text)'
       => (/\ current_state' = ALARM_DISABLED
           /\ alarm_disable_end_time' = now + t.m * 60 * 1000)]_vars

----------------------------------------------------------------------------
(* C6 *)

\* C6: for every known device opcode (1 to 12) read as the first byte of a frame
\* and followed by no byte during the lookahead window, the decoder dispatches
\* exactly one single-byte message with that opcode and its buffer is empty again.
C6_SingleOpcodeDispatched ==
  \A op \in MSG_STATUS_READY..MSG_HEARTBEAT :
    (last_event.kind = "uart" /\ last_event.nb = NoByte /\ rx_hist = <<op>>)
    => (rx_msgs = <<Simple(op)>> /\ uart_buffer = <<>>)

----------------------------------------------------------------------------
(* C7 *)

\* C7: when an opcode byte in [1,28] starts a frame and another opcode byte in
\* [1,28] arrives within the window, and nothing follows, both have been
\* dispatched as single-byte messages by the time the decoder has drained the
\* stream (the loop is about to sleep).
C7_BackToBackSingles ==
  \A a, b \in (OPCODE_MIN..OPCODE_MAX) \ {NEWLINE} :
    (pc = "sleep" /\ rx_hist = <<a, b>>) => rx_msgs = <<Simple(a), Simple(b)>>

----------------------------------------------------------------------------
(* C8 *)

\* the opcodes the newline branch accepts with data (lines 801-810)
DataOpcodes == {MSG_RFID_READ_SUCCESS, MSG_RFID_READ_FAILED, MSG_STATUS_UPDATE, MSG_HEARTBEAT}

PayloadChars == {" ", ":", "^B"}

\* the payload texts without newline whose frame fits the buffer bound
PayloadTexts == UNION {[1..n -> PayloadChars] : n \in 0..(MaxBuf - 2)}

\* the bytes read have the outline of one frame: every Frame(op, p) has it
FrameOutline ==
  /\ Len(rx_hist) >= 3
  /\ rx_hist[2] = COLON
  /\ rx_hist[Len(rx_hist)] = NEWLINE

AllSpace(t) == \A i \in 1..Len(t) : t[i] \in {" ", "\t", "\r", "\n"}

\* q is p without its leading and trailing whitespace
IsTrimOf(q, p) ==
  /\ q = <<>> \/ (~AllSpace(<<q[1]>>) /\ ~AllSpace(<<q[Len(q)]>>))
  /\ \E i \in 1..(Len(p) + 1) :
       /\ i + Len(q) - 1 <= Len(p)
       /\ q = SubSeq(p, i, i + Len(q) - 1)
       /\ AllSpace(SubSeq(p, 1, i - 1))
       /\ AllSpace(SubSeq(p, i + Len(q), Len(p)))

\* C8 as stated: feeding opcode, ':', payload, newline into an idle decoder yields
\* exactly one data message whose opcode and payload equal the encoded ones.
C8_RoundTripExact ==
  \A op \in DataOpcodes :
    (FrameOutline /\ rx_hist[1] = op) =>
      \A p \in PayloadTexts :
        rx_hist = Frame(op, p) => rx_msgs = <<WithData(op, p)>>

\* C8 amended: the frame yields exactly one data message with the encoded opcode
\* whose payload is the encoded payload without its leading and trailing
\* whitespace (so a payload that neither starts nor ends with whitespace, the empty
\* one and those holding ':' included, is reproduced exactly), and the buffer is
\* empty again.
C8_RoundTripStripped ==
  \A op \in DataOpcodes :
    (FrameOutline /\ rx_hist[1] = op) =>
    \A p \in PayloadTexts :
      rx_hist = Frame(op, p)
      => /\ Len(rx_msgs) = 1
         /\ rx_msgs[1].kind = "WithData"
         /\ rx_msgs[1].opcode = op
         /\ IsTrimOf(rx_msgs[1].payload, p)
         /\ (p = <<>> \/ (p[1] # " " /\ p[Len(p)] # " ")) => rx_msgs[1].payload = p
         /\ uart_buffer = <<>>

C8_Witness ==
  /\ rx_hist = Frame(MSG_RFID_READ_SUCCESS, <<":", "^B">>)
  /\ rx_msgs = <<WithData(MSG_RFID_READ_SUCCESS, <<":", "^B">>)>>
  /\ current_rfid_secret = <<":", "^B">>

----------------------------------------------------------------------------
(* C9 *)

\* C9: when the state is RfidWriteMode and the device sends the WriteCompleted
\* message (opcode 10, alone, to a decoder with an empty buffer), the controller
\* publishes STATUS_RFID_WRITE_COMPLETED, sets the LED off, and the state becomes
\* Ready.
C9_WriteCompletedToReady ==
  [][(/\ current_state = RFID_WRITE_MODE
      /\ uart_buffer = <<>>
      /\ GotSingleByte(MSG_RFID_WRITE_COMPLETED)')
     => (/\ current_state' = READY
         /\ Published("STATUS_RFID_WRITE_COMPLETED")'
         /\ led' = LedPayload(LED_OFF))]_vars

----------------------------------------------------------------------------
(* C10 *)

\* the step set the LED colour outside the blink driver: it wrote an LED frame and
\* was neither update_led_blink nor the start_led_blink of an AUTH_FAILED result
DirectLedSet ==
  /\ Sent(CMD_SET_LED_RGB)
  /\ last_event.kind # "update_led_blink"
  /\ ~GotMqtt(topic_auth_response, T_AUTH_FAILED)

\* C10: whenever a blink sequence is in flight and a controller action sets the
\* LED colour directly, the blink driver is Idle afterwards.
C10_DirectSetCancelsBlink ==
  [][(led_blink_active /\ DirectLedSet') => ~led_blink_active']_vars

----------------------------------------------------------------------------
(* C11 *)

\* the LED payloads of a red blink of 3: six alternating phases and the final off
BlinkOfThree ==
  <<LedPayload(LED_RED), LedPayload(LED_OFF), LedPayload(LED_RED), LedPayload(LED_OFF),
    LedPayload(LED_RED), LedPayload(LED_OFF), LedPayload(LED_OFF)>>

\* C11: an AUTH_FAILED result leaves the security state unchanged, publishes
\* AUTH_FAILED and starts the blink; with nothing else touching the LED, the LED
\* frames written from then on are always the first frames of red, off, red, off,
\* red, off and one final off, consecutive frames at least 200 ms apart, and the
\* blink driver is active exactly until the seventh frame has been written, so
\* nothing is written after it.
C11_AuthFailedBlink ==
  /\ [][GotMqtt(topic_auth_response, T_AUTH_FAILED)'
        => (/\ current_state' = current_state
            /\ Published("AUTH_FAILED")'
            /\ led_blink_active'
            /\ led_log'.cmds = Append(led_log.cmds, [t |-> now, data |-> LedPayload(LED_RED)]))]_vars
  /\ [](led_log.on =>
         /\ Len(led_log.cmds) <= Len(BlinkOfThree)
         /\ \A i \in 1..Len(led_log.cmds) : led_log.cmds[i].data = BlinkOfThree[i]
         /\ \A i \in 1..(Len(led_log.cmds) - 1) :
              ticks_diff(led_log.cmds[i + 1].t, led_log.cmds[i].t) >= 200
         /\ led_log.cmds # <<>> => (led_blink_active <=> Len(led_log.cmds) < Len(BlinkOfThree)))

\* the whole sequence has been written and a later tick, due again, wrote nothing
C11_Witness ==
  /\ Len(led_log.cmds) = Len(BlinkOfThree)
  /\ ~led_blink_active
  /\ last_event.kind = "update_led_blink"
  /\ ticks_diff(now, led_log.cmds[Len(BlinkOfThree)].t) >= 200
  /\ led = LedPayload(LED_OFF)

----------------------------------------------------------------------------
(* C12 *)

\* C12: in every reachable state the alarm-disable mode is set (permanent flag
\* true, or a timed deadline stored) only if the security state is AlarmDisabled.
C12_DisableModeOnlyWhenDisabled ==
  (alarm_disable_permanent \/ alarm_disable_end_time # 0) => current_state = ALARM_DISABLED

----------------------------------------------------------------------------
(* C13 *)

\* the step processed an auth result
GotAuthResult ==
  GotMqtt(topic_auth_response, T_AUTH_SUCCESS) \/ GotMqtt(topic_auth_response, T_AUTH_FAILED)

\* C13: the pending RFID secret changes only when an RFID-read-success frame is
\* dispatched, which stores the frame's key whatever was pending, or when an auth
\* result is processed; and after an auth result has been processed it is empty
\* (None, or the empty text).
C13_SecretClearedByAuthResult ==
  /\ [][current_rfid_secret' # current_rfid_secret
        => \/ GotAuthResult'
           \/ /\ last_event'.kind = "uart"
              /\ rx_msgs' # <<>>
              /\ rx_msgs'[Len(rx_msgs')].kind = "WithData"
              /\ rx_msgs'[Len(rx_msgs')].opcode = MSG_RFID_READ_SUCCESS
              /\ current_rfid_secret' = rx_msgs'[Len(rx_msgs')].payload]_vars
  /\ [][GotAuthResult' => current_rfid_secret' \in {None, <<>>}]_vars

----------------------------------------------------------------------------
(* C14 *)

\* the steps of the loop that no inbound message drives
TimerKinds ==
  {"mqtt_idle", "check_motion_timeout", "check_alarm_timeout", "check_arduino_connection",
   "update_led_blink", "uart_idle", "sleep"}

\* C14: while the state is AlarmDisabled with the permanent mode set, a step that
\* processes no control command and no device message (the timer checks, however
\* much time has elapsed) leaves the state AlarmDisabled and the mode permanent,
\* and publishes no re-arm event.
C14_PermanentNeverExpires ==
  [][(/\ current_state = ALARM_DISABLED
      /\ alarm_disable_permanent
      /\ last_event'.kind \in TimerKinds)
     => (/\ current_state' = ALARM_DISABLED
         /\ alarm_disable_permanent'
         /\ ~Published("ALARM_REARMED")'
         /\ ~Published("SECURITY_STATE:READY")')]_vars

\* a timer check ran in permanent mode more than 60 s after the last entry into
\* AlarmDisabled that set the legacy timer
C14_Witness ==
  /\ current_state = ALARM_DISABLED
  /\ alarm_disable_permanent
  /\ last_event.kind = "check_alarm_timeout"
  /\ ticks_diff(now, alarm_disabled_time) > 60000

----------------------------------------------------------------------------
(* C15 *)

\* C15: from every state other than AlarmDisabled, the DisableAlarm command gives
\* state AlarmDisabled with no permanent flag and no timed deadline, sends
\* CMD_SET_BUZZER_OFF and LED green, and publishes ACK_CMD_DISABLE_ALARM.
C15_DisableAlarmModeNone ==
  [][(current_state # ALARM_DISABLED /\ GotMqtt(topic_sub, T_CMD_DISABLE_ALARM)')
     => (/\ current_state' = ALARM_DISABLED
         /\ ~alarm_disable_permanent'
         /\ alarm_disable_end_time' = 0
         /\ Sent(CMD_SET_BUZZER_OFF)'
         /\ led' = LedPayload(LED_GREEN)
         /\ ~buzzer'
         /\ Published("ACK_CMD_DISABLE_ALARM")')]_vars

----------------------------------------------------------------------------
(* C16 *)

\* C16: a MotionStopped message processed in MotionDetected returns the state to
\* Ready, sends LED off and publishes MOTION_STOPPED; the grace period is entered
\* only by a MotionDetected message, which restarts its timer; and a timer check
\* made outside MotionDetected changes no state, sends nothing and publishes
\* nothing, so the cancelled episode cannot reach AlarmActive, CMD_SET_BUZZER_ON or
\* ALARM_TRIGGERED without a new MotionDetected message.
C16_MotionStoppedCancels ==
  /\ [][(current_state = MOTION_DETECTED /\ GotSingleByte(MSG_MOTION_STOPPED)')
        => (/\ current_state' = READY
            /\ uart_tx' = <<LedFrame(LED_OFF)>>
            /\ Published("MOTION_STOPPED")'
            /\ ~Sent(CMD_SET_BUZZER_ON)'
            /\ ~Published("ALARM_TRIGGERED")')]_vars
  /\ [][(current_state # MOTION_DETECTED /\ current_state' = MOTION_DETECTED)
        => (/\ GotSingleByte(MSG_MOTION_DETECTED)'
            /\ motion_start_time' = now')]_vars
  /\ [][(current_state # MOTION_DETECTED /\ last_event'.kind = "check_motion_timeout")
        => (/\ current_state' = current_state
            /\ uart_tx' = <<>>
            /\ mqtt_tx' = <<>>)]_vars

\* a MotionStopped message has just cancelled a grace period
C16_Witness ==
  /\ GotSingleByte(MSG_MOTION_STOPPED)
  /\ current_state = READY
  /\ uart_tx = <<LedFrame(LED_OFF)>>
  /\ Published("MOTION_STOPPED")

----------------------------------------------------------------------------
(* C17 *)

\* the step dispatched a heartbeat, as a single byte or as a frame
GotHeartbeat ==
  /\ last_event.kind = "uart"
  /\ rx_msgs # <<>>
  /\ rx_msgs[Len(rx_msgs)].opcode = MSG_HEARTBEAT

\* C17: ARDUINO_DISCONNECTED is published only by the connection check, when the
\* device was marked connected and more than 30 s have passed since its last
\* heartbeat; ARDUINO_CONNECTED is published only by a heartbeat received while
\* marked disconnected; neither step changes the security state; and the liveness
\* events published in a run alternate, starting with ARDUINO_CONNECTED.
C17_LivenessAlternates ==
  /\ [][Published("ARDUINO_DISCONNECTED")'
        => (/\ last_event'.kind = "check_arduino_connection"
            /\ arduino_connected /\ ~arduino_connected'
            /\ ticks_diff(now, last_arduino_heartbeat) > 30000
            /\ current_state' = current_state)]_vars
  /\ [][Published("ARDUINO_CONNECTED")'
        => (/\ GotHeartbeat'
            /\ ~arduino_connected /\ arduino_connected'
            /\ current_state' = current_state)]_vars
  /\ [](\A i \in 1..Len(liveness) :
          liveness[i] = IF i % 2 = 1 THEN "ARDUINO_CONNECTED" ELSE "ARDUINO_DISCONNECTED")

\* connected, lost, connected again and lost again
C17_Witness ==
  /\ Len(liveness) = 4
  /\ Published("ARDUINO_DISCONNECTED")
  /\ ~arduino_connected

----------------------------------------------------------------------------
(* C18 *)

\* ResetAlarm is applied in Ready with the manually-armed flag false and no disable
\* mode set
ResetInReady ==
  /\ current_state = READY
  /\ ~manually_activated
  /\ ~alarm_disable_permanent
  /\ alarm_disable_end_time = 0
  /\ GotMqtt(topic_sub, T_CMD_RESET_ALARM)'

\* C18 as stated: ResetAlarm applied in Ready (flag false, mode None) leaves every
\* controller state variable unchanged and its only effect is publishing
\* ALARM_RESET.
C18_ResetOnlyRepublishes ==
  [][ResetInReady
     => (/\ UNCHANGED <<ctlVars, blinkVars, rxVars, now>>
         /\ mqtt_tx' = <<[topic |-> topic_pub, text |-> "ALARM_RESET", arg |-> <<>>]>>
         /\ uart_tx' = <<>>)]_vars

\* C18 amended: each such application leaves every controller state variable
\* unchanged; it writes CMD_SET_BUZZER_OFF and LED off to the device and publishes
\* ALARM_RESET followed by SECURITY_STATE:READY.
C18_ResetKeepsState ==
  [][ResetInReady
     => (/\ UNCHANGED <<ctlVars, blinkVars, rxVars, now>>
         /\ mqtt_tx' = <<[topic |-> topic_pub, text |-> "ALARM_RESET", arg |-> <<>>],
                         [topic |-> topic_pub, text |-> "SECURITY_STATE:READY", arg |-> <<>>]>>
         /\ uart_tx' = <<<<CMD_SET_BUZZER_OFF>>, LedFrame(LED_OFF)>>)]_vars

\* ResetAlarm has just been applied as the first event after boot, that is in
\* Ready with the flag false and no mode set
C18_Witness ==
  /\ GotMqtt(topic_sub, T_CMD_RESET_ALARM)
  /\ advances = 0
  /\ current_state = READY
  /\ Published("ALARM_RESET")
  /\ led = LedPayload(LED_OFF)

----------------------------------------------------------------------------
(* C19 *)

\* minutes fields that are not decimal numbers
MalformedFields == {<<>>, <<"x">>, <<"x", "5">>}

\* the step processed an unknown device opcode, an unrecognised control-plane text
\* or a CMD_DISABLE_ALARM_TIMED: text with a malformed minutes field
GotUnknownInput ==
  \/ \E c \in UnknownOpcodes : GotSingleByte(c)
  \/ GotMqtt(topic_sub, T_CMD_UNKNOWN)
  \/ \E f \in MalformedFields : GotMqtt(topic_sub, T_CMD_DISABLE_ALARM_TIMED \o f)

\* C19: such a step leaves the security state, the manually-armed flag, the
\* disable mode, all timers and the pending RFID secret unchanged and sends no
\* command to the device.
C19_UnknownInputIgnored ==
  [][GotUnknownInput'
     => (/\ UNCHANGED <<current_state, manually_activated, alarm_disable_permanent,
                        alarm_disable_end_time, motion_start_time, alarm_disabled_time,
                        last_arduino_heartbeat, led_blink_last_time, current_rfid_secret>>
         /\ uart_tx' = <<>>)]_vars

----------------------------------------------------------------------------
(* C20 *)

\* C20: a control-plane text that is not one of the recognised commands causes an
\* error event to be published on the outbound status topic.
C20_UnknownCommandReported ==
  [][GotMqtt(topic_sub, T_CMD_UNKNOWN)'
     => \E i \in 1..Len(mqtt_tx') : mqtt_tx'[i].topic = topic_pub]_vars

----------------------------------------------------------------------------
(* C21 *)

\* C21: RfidWriteConfirm received in RfidWriteMode forwards CMD_RFID_WRITE_CONFIRM
\* to the device and leaves the state RfidWriteMode; received in any other state
\* it sends nothing to the device, publishes ERROR_RFID_WRITE_NOT_PREPARED and
\* leaves all controller state unchanged.
C21_ConfirmOnlyWhenPrepared ==
  [][GotMqtt(topic_sub, T_CMD_RFID_WRITE_CONFIRM)'
     => IF current_state = RFID_WRITE_MODE
        THEN /\ uart_tx' = <<(<<CMD_RFID_WRITE_CONFIRM>>)>>
             /\ current_state' = RFID_WRITE_MODE
        ELSE /\ uart_tx' = <<>>
             /\ Published("ERROR_RFID_WRITE_NOT_PREPARED")'
             /\ UNCHANGED <<ctlVars, blinkVars, uart_buffer>>]_vars

\* a confirm was refused outside RfidWriteMode
C21_Witness ==
  /\ GotMqtt(topic_sub, T_CMD_RFID_WRITE_CONFIRM)
  /\ current_state # RFID_WRITE_MODE
  /\ Published("ERROR_RFID_WRITE_NOT_PREPARED")

----------------------------------------------------------------------------
(* C22 *)

\* a byte that cannot start a frame: outside [1,28] and not the newline
IsStrayByte(c) == c # NEWLINE /\ ~(OPCODE_MIN <= c /\ c <= OPCODE_MAX)

\* C22: a stray byte read while no frame is in progress does not become part of
\* the decoder's buffer, and a known opcode read right after it, with nothing
\* following within the lookahead window, is dispatched as a single-byte message.
C22_StrayByteDropped ==
  /\ (last_event.kind = "uart" /\ rx_hist # <<>> /\ IsStrayByte(rx_hist[1]))
       => (uart_buffer = <<>> \/ uart_buffer[1] # rx_hist[1])
  /\ (/\ last_event.kind = "uart"
      /\ Len(rx_hist) = 2
      /\ IsStrayByte(rx_hist[1])
      /\ rx_hist[2] = MSG_MOTION_DETECTED)
       => rx_msgs = <<Simple(MSG_MOTION_DETECTED)>>

----------------------------------------------------------------------------
(* C23 *)

\* the time elapsed, as a wrapped difference, since the DisableAlarmTimed(1) that
\* stored this deadline
SinceTimedDisable(t, deadline) == ticks_diff(t, (deadline - 1 * 60 * 1000) % TICKS_PERIOD)

\* C23: whatever the start time, also within m*60 s of the clock's wrap point, a
\* timer check that leaves the state AlarmDisabled with a timed deadline stored was
\* made before m*60 s had elapsed since DisableAlarmTimed(m); here m = 1.
C23_TimedExpiryToleratesWrap ==
  (/\ last_event.kind = "check_alarm_timeout"
   /\ current_state = ALARM_DISABLED
   /\ ~alarm_disable_permanent
   /\ alarm_disable_end_time > 0)
    => SinceTimedDisable(now, alarm_disable_end_time) < 1 * 60 * 1000

----------------------------------------------------------------------------
(* C24 *)

\* C24: with the clock advancing at every sleep, a lookahead window that was
\* opened is always closed again; it is closed by the step that reads one
\* further byte, ':' or not, and otherwise by the first loop test made 10 ms or
\* more after it was opened, which dispatches the first byte as a single-byte
\* message and empties the buffer.
C24_LookaheadTerminates ==
  /\ lookahead.active ~> ~lookahead.active
  /\ [][last_event'.kind = "lookahead_byte" => (lookahead.active /\ ~lookahead.active')]_vars
  /\ [][(lookahead.active /\ ticks_diff(now, lookahead.start_time) >= lookahead_timeout)
        => (/\ ~lookahead.active'
            /\ rx_msgs' = <<Simple(rx_hist[1])>>
            /\ uart_buffer' = <<>>)]_vars

\* a window opened just before the clock wraps was closed by its timeout
C24_Witness ==
  /\ last_event.kind = "lookahead_timed_out"
  /\ ~lookahead.active
  /\ lookahead.start_time = TICKS_PERIOD - 5
  /\ now < lookahead.start_time

----------------------------------------------------------------------------
(* C25 *)

\* C25: in every reachable state the last buzzer command the device received is
\* CMD_SET_BUZZER_ON only if the security state is AlarmActive.
C25_BuzzerOnlyWhenActive == buzzer => current_state = ALARM_ACTIVE

----------------------------------------------------------------------------
(* C26 *)

\* the step puts the controller in AlarmDisabled, from another state, with no
\* permanent flag and no timed deadline set
EntersAlarmDisabled ==
  /\ current_state # ALARM_DISABLED
  /\ current_state' = ALARM_DISABLED
  /\ ~alarm_disable_permanent'
  /\ alarm_disable_end_time' = 0

\* times, up to 60 s, at which the timer check may run after the state was entered
RearmWaits == {0, 1, 30000, alarm_disable_duration}

\* C26: after the controller entered AlarmDisabled, by a DisableAlarm command or an
\* accepted AUTH_SUCCESS, a timer check made up to 60 s later, with nothing else
\* received in between, does not re-arm: the state stays AlarmDisabled.
C26_LegacyRearmAfterSixtySeconds ==
  [][EntersAlarmDisabled
     => \A d \in RearmWaits :
          check_alarm_timeout([Globals EXCEPT !.now = (@ + d) % TICKS_PERIOD])'.current_state
            = ALARM_DISABLED]_vars

====
